---- MODULE Spec2Model ----
(***************************************************************************)
(* The WebSocket-to-TCP relay session of src/_worker.js, handleSession     *)
(* (lines 475-805) with its helpers sendWebSocketMessage and               *)
(* safeCloseWebSocket (lines 807-827).                                     *)
(*                                                                         *)
(* One session is modelled.  Its listeners are async functions: an event   *)
(* runs its listener up to the first await, and the continuation after an  *)
(* await runs when the awaited promise settles.  Nothing makes the runtime *)
(* wait for a listener's promise before it dispatches the next event, so   *)
(* several listeners can be suspended at once.  Every action below is one  *)
(* such run-to-the-next-await step.                                        *)
(***************************************************************************)
EXTENDS Integers, Sequences, FiniteSets, TLC

\* Bounds of the exploration.
MaxLoad == 4        \* listener runs, sockets and forwarded chunks of a behaviour
MaxFallbacks == 2   \* longest configured fallback list explored

\* src/_worker.js:412-413; 3 is the WebSocket standard's CLOSED.
WS_READY_STATE_OPEN == 1
WS_READY_STATE_CLOSING == 2
WS_READY_STATE_CLOSED == WS_READY_STATE_CLOSING + 1

VARIABLES
  CF_FALLBACK_IPS, \* the configured fallback list (read only)
  readyState,      \* webSocket.readyState
  closeEv,         \* the inbound close event: "none", "queued" or "fired"
  remoteSocket,    \* 0 is null, otherwise the index of a socket in socks
  remoteWriter,    \* 0 is null, otherwise the socket whose writer it is
  remoteReader,    \* 0 is null, otherwise the socket whose reader it is
  isClosed,
  isReading,
  socks,           \* every socket connect() has returned, in creation order
  hs,              \* one record per delivered message event: its listener run
  pumps,           \* per running pumpRemoteToWebSocket: the reader it awaits
  log,             \* frames sent inbound and cleanup's releases, in order
  pumpSkipped,     \* a pump start was skipped because isReading was set
  pumpEnd,         \* how the last pump to leave its loop left it: "eos",
                   \* "error" (a read error that tore the session down) or
                   \* "stop" (the loop's tests ended it)
  addr,            \* the argument of a call of parseAddress
  parsed,          \* what that call returned or threw
  str,             \* the argument of a call of stringToBytes
  bytes            \* what that call returned

vars == <<CF_FALLBACK_IPS, readyState, closeEv, remoteSocket, remoteWriter, remoteReader,
          isClosed, isReading, socks, hs, pumps, log, pumpSkipped, pumpEnd,
          addr, parsed, str, bytes>>

\* The session's state as one record, so that the code's functions are
\* functions from state to state.
Cur ==
  [readyState |-> readyState, remoteSocket |-> remoteSocket,
   remoteWriter |-> remoteWriter, remoteReader |-> remoteReader,
   isClosed |-> isClosed, isReading |-> isReading, socks |-> socks, hs |-> hs,
   pumps |-> pumps, log |-> log, pumpSkipped |-> pumpSkipped,
   pumpEnd |-> pumpEnd]

Set(S) ==
  /\ readyState' = S.readyState
  /\ remoteSocket' = S.remoteSocket
  /\ remoteWriter' = S.remoteWriter
  /\ remoteReader' = S.remoteReader
  /\ isClosed' = S.isClosed
  /\ isReading' = S.isReading
  /\ socks' = S.socks
  /\ hs' = S.hs
  /\ pumps' = S.pumps
  /\ log' = S.log
  /\ pumpSkipped' = S.pumpSkipped
  /\ pumpEnd' = S.pumpEnd
  /\ UNCHANGED <<CF_FALLBACK_IPS, addr, parsed, str, bytes>>

RemoveAt(s, p) == [k \in 1..(Len(s) - 1) |-> IF k < p THEN s[k] ELSE s[k + 1]]

Count(s, x) == Cardinality({k \in 1..Len(s) : s[k] = x})

Frames == {"CONNECTED", "CLOSE", "ERROR_CONNECT", "ERROR_FORMAT", "BIN"}

\* A step of the session's own code, within the bounds: the close event's
\* state is the runtime's.
Load(T) == Len(T.hs) + Len(T.socks) + Count(T.log, "BIN")

Step(T) ==
  /\ Load(T) <= MaxLoad
  /\ Set(T)
  /\ UNCHANGED closeEv

\* ------------------------------------------------------------------------
\* sendWebSocketMessage and safeCloseWebSocket

sendWebSocketMessage(S, message) ==
  IF S.readyState = WS_READY_STATE_OPEN
  THEN [S EXCEPT !.log = Append(@, message)]
  ELSE S

\* ws.close() on an open socket starts the closing handshake; on one the peer
\* is already closing it completes the handshake.
safeCloseWebSocket(S) ==
  IF S.readyState = WS_READY_STATE_OPEN \/ S.readyState = WS_READY_STATE_CLOSING
  THEN [S EXCEPT !.log = Append(@, "closeInbound"),
                 !.readyState = IF @ = WS_READY_STATE_OPEN
                                THEN WS_READY_STATE_CLOSING
                                ELSE WS_READY_STATE_CLOSED]
  ELSE S

\* ------------------------------------------------------------------------
\* cleanup

\* A teardown that closes the inbound channel and keeps the session going.
cleanupInboundOnly(S) == safeCloseWebSocket(S)

cleanupSteps(S) ==
  LET S1 == [S EXCEPT !.isClosed = TRUE]
      S2 == IF S1.remoteWriter # 0
            THEN [S1 EXCEPT !.remoteWriter = 0,
                            !.log = Append(@, "releaseWriter")]
            ELSE S1
      S3 == IF S2.remoteReader # 0
            THEN [S2 EXCEPT !.remoteReader = 0,
                            !.log = Append(@, "releaseReader")]
            ELSE S2
      S4 == IF S3.remoteSocket # 0
            THEN [S3 EXCEPT !.socks[S3.remoteSocket].st = "closed",
                            !.remoteSocket = 0,
                            !.log = Append(@, "closeSocket")]
            ELSE S3
  IN safeCloseWebSocket(S4)

cleanupUnguarded(S) == cleanupSteps(S)

cleanup(S) == IF S.isClosed THEN S ELSE cleanupSteps(S)

\* ------------------------------------------------------------------------
\* The outbound side: sockets, writes, the pump

\* connect({hostname, port}) of tryConnect: a new socket, not yet opened.
\* ip = 0 is the direct attempt (fallbackIP = null), ip = k the k-th fallback.
\* hostname is fallbackIP || host, with 0 standing for the target's host and
\* k for the whole text of the k-th fallback entry.  port is the port
\* argument, which connectToRemote takes from the target address: 0 stands
\* for the target's port, k would be a port written in the k-th entry.
NewSocket(h, fallbackIP) ==
  [owner |-> h, ip |-> fallbackIP,
   hostname |-> IF fallbackIP # 0 THEN fallbackIP ELSE 0,
   port |-> 0,
   st |-> "opening", written |-> <<>>,
   outcome |-> "pending"]

\* writer.write(bytes): the chunk joins the socket's write queue when write is
\* called; the queue is first in, first out.  m is the message event the
\* payload came with.
writeDeferred(S, sid, m) == S

write(S, sid, m) == [S EXCEPT !.socks[sid].written = Append(@, m)]

\* The write promise settles: the chunk is in the queue already when write
\* put it there at the call.
writeSettled(S, sid, m) ==
  IF \E k \in 1..Len(S.socks[sid].written) : S.socks[sid].written[k] = m
  THEN S
  ELSE [S EXCEPT !.socks[sid].written = Append(@, m)]

\* The pump leaves its loop: the finally block.
pumpExit(S, p, why) ==
  [S EXCEPT !.isReading = FALSE, !.pumps = RemoveAt(@, p), !.pumpEnd = why]

\* The head of the while loop: the next read is issued on whatever
\* remoteReader holds now.
pumpLoop(S, p) ==
  IF ~S.isClosed /\ S.remoteReader # 0 /\ S.remoteSocket # 0
  THEN [S EXCEPT !.pumps[p] = S.remoteReader]
  ELSE pumpExit(S, p, "stop")

\* read() resolved with done: lines 518-523.
onReadDoneCleanupFirst(S, p) ==
  pumpExit(sendWebSocketMessage(cleanup(S), "CLOSE"), p, "eos")

onReadDone(S, p) ==
  pumpExit(cleanup(sendWebSocketMessage(S, "CLOSE")), p, "eos")

\* read() resolved with a non-empty chunk: lines 525-532.
onReadChunk(S, p) ==
  IF S.readyState = WS_READY_STATE_OPEN
  THEN pumpLoop([S EXCEPT !.log = Append(@, "BIN")], p)
  ELSE pumpExit(S, p, "stop")

\* A catch that only ends the pump.
onReadErrorSwallowed(S, p) == pumpExit(S, p, "error")

\* read() rejected: lines 534-542.
onReadError(S, p) ==
  IF ~S.isClosed
  THEN pumpExit(cleanup(sendWebSocketMessage(S, "CLOSE")), p, "error")
  ELSE pumpExit(S, p, "stop")

pumpEnter(S) ==
  LET S1 == [S EXCEPT !.isReading = TRUE, !.pumps = Append(@, 0)]
  IN pumpLoop(S1, Len(S1.pumps))

pumpUnguarded(S) == pumpEnter(S)

pumpRemoteToWebSocket(S) ==
  IF S.isReading THEN [S EXCEPT !.pumpSkipped = TRUE] ELSE pumpEnter(S)

\* ------------------------------------------------------------------------
\* connectToRemote

\* A listener run ends with result res; its locals are gone.
finish(S, m, res) ==
  [S EXCEPT !.hs[m].pc = "done", !.hs[m].res = res, !.hs[m].first = FALSE,
            !.hs[m].i = 0]

isCloudflareLimitError(err) == err = "cf"

\* attempts = [direct, ...CF_FALLBACK_IPS]; indices from 0 as in the code.
attemptsFallbackFirst(fb) == fb \o <<0>>

attempts(fb) == <<0>> \o fb

lastAttempt(fb) == Len(attempts(fb)) - 1

\* One iteration's tryConnect up to its await of socket.opened.
tryConnect(S, h, i, fb) ==
  [S EXCEPT !.socks = Append(@, NewSocket(h, attempts(fb)[i + 1])),
            !.hs[h].pc = "opened", !.hs[h].i = i,
            !.hs[h].sock = Len(S.socks) + 1]

\* Lines 676-688: CONNECTED, start the pump, return.
connected(S, h) ==
  LET S1 == sendWebSocketMessage(S, "CONNECTED")
      S2 == pumpRemoteToWebSocket(S1)
  IN [finish(S2, h, "connected") EXCEPT !.hs[h].err = "none",
                                       !.socks[S.hs[h].sock].outcome = "ok"]

\* A connect that hands the writer out at once and puts the first payload in
\* the queue only when its write settles.
openedWriterFirst(S, h) ==
  LET sid == S.hs[h].sock
      S1 == [S EXCEPT !.socks[sid].st = "open", !.remoteSocket = sid,
                      !.remoteWriter = sid, !.remoteReader = sid]
  IN IF S.hs[h].first
     THEN [S1 EXCEPT !.hs[h].pc = "firstWrite"]
     ELSE connected(S1, h)

\* Lines 639-651: socket.opened resolved.
opened(S, h) ==
  LET sid == S.hs[h].sock
      S1 == [S EXCEPT !.socks[sid].st = "open", !.remoteSocket = sid,
                      !.remoteWriter = sid, !.remoteReader = sid]
  IN IF S.hs[h].first
     THEN [write(S1, sid, h) EXCEPT !.hs[h].pc = "firstWrite"]
     ELSE connected(S1, h)

\* Release of whatever the three shared variables hold: lines 661-666 and
\* 695-706 (there each step is guarded by a null test, here by a try/catch
\* that swallows the TypeError of a null: the same effect).
releaseAttempt(S) ==
  LET S1 == [S EXCEPT !.remoteWriter = 0]
      S2 == [S1 EXCEPT !.remoteReader = 0]
  IN IF S2.remoteSocket # 0
     THEN [S2 EXCEPT !.socks[S2.remoteSocket].st = "closed", !.remoteSocket = 0]
     ELSE S2

\* Lines 747-753: the listener's catch around connectToRemote.
connectFailedSilent(S, h, res) == finish(cleanup(S), h, res)

connectFailedNoTeardown(S, h, res) ==
  finish(sendWebSocketMessage(S, "ERROR_CONNECT"), h, res)

connectFailed(S, h, res) ==
  LET S1 == sendWebSocketMessage(S, "ERROR_CONNECT")
      S2 == cleanup(S1)
  IN finish(S2, h, res)

\* Whether the catch of a failed attempt gives up instead of going on to the
\* next attempt: lines 708-717.  A Cloudflare error that is not the last
\* continues; the last attempt throws; anything else falls out of the catch
\* and the for loop goes on.
givesUpCFGate(err, i, last) == ~isCloudflareLimitError(err) \/ i = last

givesUp(err, i, last) ==
  IF isCloudflareLimitError(err) /\ i < last THEN FALSE ELSE i = last

\* Lines 690-718: the catch of one attempt.
catchAttempt(S, h, err, fb) ==
  LET i == S.hs[h].i
      S1 == releaseAttempt(S)
      S2 == [S1 EXCEPT !.hs[h].err = err,
                       !.socks[S.hs[h].sock].outcome = "failed"]
  IN IF givesUp(err, i, lastAttempt(fb))
     THEN connectFailed(S2, h, "connectFailed")
     ELSE tryConnect(S2, h, i + 1, fb)

\* Lines 653-673: the catch of the first-frame write.
catchFirstFrame(S, h, err, fb) ==
  LET i == S.hs[h].i
  IN IF isCloudflareLimitError(err) /\ i < lastAttempt(fb)
     THEN LET S1 == releaseAttempt(S)
              S2 == [S1 EXCEPT !.hs[h].err = err,
                               !.socks[S.hs[h].sock].outcome = "failed"]
          IN tryConnect(S2, h, i + 1, fb)
     ELSE catchAttempt(S, h, err, fb)

\* ------------------------------------------------------------------------
\* The message listener, lines 726-794

Kinds == {"CONNECT", "CONNECT_NOSEP", "CONNECT_BADADDR", "DATA", "BIN", "CLOSE",
          "OTHER"}

\* A listener run: the message's kind, where the run is suspended (pc), the
\* attempt index i and the socket of the pending await, whether the CONNECT
\* carries a non-empty first payload, how the run ended, its lastError.
NewRun(kind, first) ==
  [kind |-> kind, first |-> first, pc |-> "done", i |-> 0, sock |-> 0,
   res |-> "none", err |-> "none"]

\* A listener that tears the session down on a payload it cannot write.
onDataStrict(S, m) ==
  IF S.remoteWriter # 0
  THEN [write(S, S.remoteWriter, m) EXCEPT !.hs[m].pc = "write",
                                           !.hs[m].sock = S.remoteWriter]
  ELSE finish(cleanup(S), m, "nowriter")

\* DATA and binary frames: lines 755-768 and 777-788, up to the await.
onData(S, m) ==
  IF S.remoteWriter # 0
  THEN [write(S, S.remoteWriter, m) EXCEPT !.hs[m].pc = "write",
                                           !.hs[m].sock = S.remoteWriter]
  ELSE finish(S, m, "nowriter")

\* The listener of the variant at lines 262-287, which looks for no '|'.
onMessageNoDelimiterCheck(S, m, fb) ==
  LET kind == S.hs[m].kind
  IN IF S.isClosed THEN S
     ELSE CASE kind \in {"CONNECT", "CONNECT_NOSEP"} -> tryConnect(S, m, 0, fb)
            [] kind = "CONNECT_BADADDR" -> connectFailed(S, m, "parseFailed")
            [] kind \in {"DATA", "BIN"} -> onData(S, m)
            [] kind = "CLOSE" -> finish(cleanup(S), m, "closed")
            [] OTHER -> S

onMessage(S, m, fb) ==
  LET kind == S.hs[m].kind
  IN IF S.isClosed THEN S
     ELSE CASE kind = "CONNECT" -> tryConnect(S, m, 0, fb)
            [] kind = "CONNECT_BADADDR" -> connectFailed(S, m, "parseFailed")
            [] kind = "CONNECT_NOSEP" ->
                 finish(sendWebSocketMessage(S, "ERROR_FORMAT"), m, "malformed")
            [] kind \in {"DATA", "BIN"} -> onData(S, m)
            [] kind = "CLOSE" -> finish(cleanup(S), m, "closed")
            [] OTHER -> S

\* ------------------------------------------------------------------------
\* Actions

\* The fallback lists explored: the first entry is a bare address, as the
\* one of lines 416-418; the entries after it are written address:port.
EntryCarriesPort(ip) == ip > 1

Init ==
  /\ CF_FALLBACK_IPS \in {[k \in 1..n |-> k] : n \in 0..MaxFallbacks}
  /\ readyState = WS_READY_STATE_OPEN
  /\ closeEv = "none"
  /\ remoteSocket = 0
  /\ remoteWriter = 0
  /\ remoteReader = 0
  /\ isClosed = FALSE
  /\ isReading = FALSE
  /\ socks = <<>>
  /\ hs = <<>>
  /\ pumps = <<>>
  /\ log = <<>>
  /\ pumpSkipped = FALSE
  /\ pumpEnd = "none"
  /\ addr = <<>>
  /\ parsed = [st |-> "none"]
  /\ str = <<>>
  /\ bytes = [st |-> "none"]

\* A message event is dispatched: the listener runs to its first await.  A
\* run that returns at the isClosed test, or that only logs an unknown text
\* message, changes nothing: it is a stuttering step, and keeps no record.
Message(kind, first) ==
  /\ closeEv # "fired"
  /\ first => kind = "CONNECT"
  /\ LET S0 == [Cur EXCEPT !.hs = Append(@, NewRun(kind, first))]
         T == onMessage(S0, Len(S0.hs), CF_FALLBACK_IPS)
     IN T # S0 /\ Step(T)

\* socket.opened resolves.
SocketOpened(h) ==
  /\ hs[h].pc = "opened"
  /\ Step(opened(Cur, h))

\* socket.opened rejects with err.
SocketFailed(h, err) ==
  /\ hs[h].pc = "opened"
  /\ LET S0 == [Cur EXCEPT !.socks[hs[h].sock].st = "failed"]
     IN Step(catchAttempt(S0, h, err, CF_FALLBACK_IPS))

\* The first-frame write resolves.
FirstWriteOk(h) ==
  /\ hs[h].pc = "firstWrite"
  /\ Step(connected(writeSettled(Cur, hs[h].sock, h), h))

\* The first-frame write rejects with err.
FirstWriteFail(h, err) ==
  /\ hs[h].pc = "firstWrite"
  /\ Step(catchFirstFrame(Cur, h, err, CF_FALLBACK_IPS))

\* The write of a DATA or binary payload resolves.
WriteOk(h) ==
  /\ hs[h].pc = "write"
  /\ Step(finish(writeSettled(Cur, hs[h].sock, h), h, "written"))

\* A write failure answered by dialling again.
WriteFailReconnects(h) ==
  /\ hs[h].pc = "write"
  /\ Step(tryConnect(Cur, h, 0, CF_FALLBACK_IPS))

\* The write of a DATA or binary payload rejects: lines 761-764, 781-784.
WriteFail(h) ==
  /\ hs[h].pc = "write"
  /\ Step(finish(cleanup(Cur), h, "writeFailed"))

\* remoteReader.read() resolves with done.
ReadDone(p) ==
  /\ p \in 1..Len(pumps)
  /\ Step(onReadDone(Cur, p))

\* read() resolves with a non-empty chunk.
ReadChunk(p) ==
  /\ p \in 1..Len(pumps)
  /\ socks[pumps[p]].st = "open"
  /\ Step(onReadChunk(Cur, p))

\* The pump of the variant at lines 335-344, which leaves its loop on an
\* empty chunk.
ReadEmptyBreaks(p) ==
  /\ p \in 1..Len(pumps)
  /\ socks[pumps[p]].st = "open"
  /\ Step(pumpExit(Cur, p, "stop"))

\* read() resolves with an empty chunk: the loop goes round.
ReadEmpty(p) ==
  /\ p \in 1..Len(pumps)
  /\ socks[pumps[p]].st = "open"
  /\ Step(pumpLoop(Cur, p))

\* read() rejects.
ReadError(p) ==
  /\ p \in 1..Len(pumps)
  /\ Step(onReadError(Cur, p))

\* The peer closes the inbound channel: readyState leaves OPEN when the
\* peer's close arrives, and the close event is queued for the listener.
PeerClose(rs) ==
  /\ readyState = WS_READY_STATE_OPEN
  /\ closeEv = "none"
  /\ rs \in {WS_READY_STATE_CLOSING, WS_READY_STATE_CLOSED}
  /\ Set([Cur EXCEPT !.readyState = rs])
  /\ closeEv' = "queued"

\* The inbound close event reaches its listener: lines 796-799.  It is the
\* queued event of the peer's close, or the one that ends the handshake the
\* session's own ws.close() began.
WsClose ==
  /\ \/ closeEv = "queued"
     \/ closeEv = "none" /\ readyState = WS_READY_STATE_CLOSING
  /\ LET rs == IF closeEv = "none" THEN WS_READY_STATE_CLOSED ELSE readyState
     IN Set(cleanup([Cur EXCEPT !.readyState = rs]))
  /\ closeEv' = "fired"

\* The inbound error event: lines 801-804.
WsError ==
  /\ closeEv # "fired"
  /\ Step(cleanup(Cur))

Next ==
  \/ \E kind \in Kinds, first \in BOOLEAN : Message(kind, first)
  \/ \E h \in 1..Len(hs) : SocketOpened(h)
  \/ \E h \in 1..Len(hs), err \in {"cf", "other"} : SocketFailed(h, err)
  \/ \E h \in 1..Len(hs) : FirstWriteOk(h)
  \/ \E h \in 1..Len(hs), err \in {"cf", "other"} : FirstWriteFail(h, err)
  \/ \E h \in 1..Len(hs) : WriteOk(h)
  \/ \E h \in 1..Len(hs) : WriteFail(h)
  \/ \E p \in 1..Len(pumps) : ReadDone(p)
  \/ \E p \in 1..Len(pumps) : ReadChunk(p)
  \/ \E p \in 1..Len(pumps) : ReadEmpty(p)
  \/ \E p \in 1..Len(pumps) : ReadError(p)
  \/ \E rs \in {WS_READY_STATE_CLOSING, WS_READY_STATE_CLOSED} : PeerClose(rs)
  \/ WsClose
  \/ WsError

Spec == Init /\ [][Next]_vars

\* ------------------------------------------------------------------------
\* parseAddress, lines 545-569
\*
\* A string is a sequence of characters.  Positions are counted from 0 as
\* in the code; -1 is "not found".

MaxAddrLen == 6   \* longest address explored

\* The characters of the addresses explored: the brackets, the colon, a
\* letter and two digits.  They hold no white space and no sign, which
\* parseInt would skip or read.
AddrChars == {"[", "]", ":", "a", "0", "7"}

Digits == <<"0", "1", "2", "3", "4", "5", "6", "7", "8", "9">>

IsDigit(c) == \E d \in 1..Len(Digits) : Digits[d] = c

DigitValue(c) == (CHOOSE d \in 1..Len(Digits) : Digits[d] = c) - 1

\* s.indexOf(c) and s.lastIndexOf(c).
indexOf(s, c) ==
  IF \E k \in 1..Len(s) : s[k] = c
  THEN (CHOOSE k \in 1..Len(s) :
          s[k] = c /\ \A j \in 1..(k - 1) : s[j] # c) - 1
  ELSE -1

lastIndexOf(s, c) ==
  IF \E k \in 1..Len(s) : s[k] = c
  THEN (CHOOSE k \in 1..Len(s) :
          s[k] = c /\ \A j \in (k + 1)..Len(s) : s[j] # c) - 1
  ELSE -1

\* s.substring(from, to) and s.substring(from): both ends are clamped to
\* 0..s.length and swapped when from is the larger.
Clamp(n, len) == IF n < 0 THEN 0 ELSE IF n > len THEN len ELSE n

substring(s, from, to) ==
  LET a == Clamp(from, Len(s))
      b == Clamp(to, Len(s))
  IN IF a <= b THEN SubSeq(s, a + 1, b) ELSE SubSeq(s, b + 1, a)

substringFrom(s, from) == substring(s, from, Len(s))

\* parseInt(s, 10) on a string without white space or sign: the value of
\* the longest prefix of digits, NaN when that prefix is empty.
RECURSIVE DigitsValue(_)
DigitsValue(s) ==
  IF s = <<>> THEN 0
  ELSE 10 * DigitsValue(SubSeq(s, 1, Len(s) - 1)) + DigitValue(s[Len(s)])

DigitPrefixLen(s) ==
  IF \E k \in 1..Len(s) : ~IsDigit(s[k])
  THEN (CHOOSE k \in 1..Len(s) :
          ~IsDigit(s[k]) /\ \A j \in 1..(k - 1) : IsDigit(s[j])) - 1
  ELSE Len(s)

parseInt(s) ==
  IF DigitPrefixLen(s) = 0
  THEN [nan |-> TRUE, val |-> 0]
  ELSE [nan |-> FALSE, val |-> DigitsValue(SubSeq(s, 1, DigitPrefixLen(s)))]

\* The call returns {host, port} or throws.  port is what parseInt returned:
\* only the unbracketed branch tests it.
parseAddress(a) ==
  IF Len(a) > 0 /\ a[1] = "["
  THEN LET closeBracket == indexOf(a, "]")
       IN IF closeBracket = -1
          THEN [st |-> "throw"]
          ELSE [st |-> "ok",
                host |-> substring(a, 1, closeBracket),
                port |-> parseInt(substringFrom(a, closeBracket + 2))]
  ELSE LET lastColon == lastIndexOf(a, ":")
           port == parseInt(substringFrom(a, lastColon + 1))
       IN IF lastColon = -1
          THEN [st |-> "throw"]
          ELSE IF port.nan \/ port.val < 1 \/ port.val > 65535
               THEN [st |-> "throw"]
               ELSE [st |-> "ok", host |-> substring(a, 0, lastColon),
                     port |-> port]

Addrs == UNION {[1..n -> AddrChars] : n \in 0..MaxAddrLen}

\* No session is running: the state the calls of the pure functions are
\* explored in.
NoSession ==
  /\ CF_FALLBACK_IPS = <<>>
  /\ readyState = WS_READY_STATE_OPEN
  /\ closeEv = "none"
  /\ remoteSocket = 0
  /\ remoteWriter = 0
  /\ remoteReader = 0
  /\ isClosed = FALSE
  /\ isReading = FALSE
  /\ socks = <<>>
  /\ hs = <<>>
  /\ pumps = <<>>
  /\ log = <<>>
  /\ pumpSkipped = FALSE
  /\ pumpEnd = "none"

InitParse ==
  /\ NoSession
  /\ addr \in Addrs
  /\ parsed = [st |-> "none"]
  /\ str = <<>>
  /\ bytes = [st |-> "none"]

\* connectToRemote's call, line 623.
Parse ==
  /\ parsed.st = "none"
  /\ parsed' = parseAddress(addr)
  /\ UNCHANGED <<CF_FALLBACK_IPS, readyState, closeEv, remoteSocket,
                 remoteWriter, remoteReader, isClosed, isReading, socks, hs,
                 pumps, log, pumpSkipped, pumpEnd, addr, str, bytes>>

NextParse == Parse

SpecParse == InitParse /\ [][NextParse]_vars

\* ------------------------------------------------------------------------
\* stringToBytes, lines 571-577
\*
\* A string is here the sequence of its UTF-16 code units, which is what
\* charCodeAt reads.

MaxStrLen == 3   \* longest string explored

\* The code units explored: NUL, a letter, the two sides of the byte
\* boundary, two units above it and the largest unit.
CodeUnits == {0, 65, 255, 256, 321, 20013, 65535}

\* a & b on non-negative integers.
RECURSIVE BitAnd(_, _)
BitAnd(a, b) ==
  IF a = 0 \/ b = 0 THEN 0
  ELSE 2 * BitAnd(a \div 2, b \div 2)
       + (IF a % 2 = 1 /\ b % 2 = 1 THEN 1 ELSE 0)

\* TextEncoder.encode of the variant at lines 240-242 and 278-282: UTF-8
\* (of strings without surrogates).
RECURSIVE encodeUtf8(_)
encodeUtf8(s) ==
  IF s = <<>> THEN <<>>
  ELSE LET u == Head(s)
           b == IF u < 128 THEN <<u>>
                ELSE IF u < 2048
                     THEN <<192 + (u \div 64), 128 + (u % 64)>>
                     ELSE <<224 + (u \div 4096), 128 + ((u \div 64) % 64),
                            128 + (u % 64)>>
       IN b \o encodeUtf8(Tail(s))

\* bytes[i] = str.charCodeAt(i) & 0xFF in a Uint8Array of str.length.
stringToBytes(s) == [i \in 1..Len(s) |-> BitAnd(s[i], 255)]

Strings == UNION {[1..n -> CodeUnits] : n \in 0..MaxStrLen}

InitBytes ==
  /\ NoSession
  /\ addr = <<>>
  /\ parsed = [st |-> "none"]
  /\ str \in Strings
  /\ bytes = [st |-> "none"]

\* The calls at lines 650 and 759.
Encode ==
  /\ bytes.st = "none"
  /\ bytes' = [st |-> "ok", val |-> stringToBytes(str)]
  /\ UNCHANGED <<CF_FALLBACK_IPS, readyState, closeEv, remoteSocket,
                 remoteWriter, remoteReader, isClosed, isReading, socks, hs,
                 pumps, log, pumpSkipped, pumpEnd, addr, parsed, str>>

NextBytes == Encode

SpecBytes == InitBytes /\ [][NextBytes]_vars

\* ------------------------------------------------------------------------
\* Vocabulary of the properties

CleanupEvents == {"releaseWriter", "releaseReader", "closeSocket", "closeInbound"}

IsCleanupEvent(e) == e \in CleanupEvents

IsFrame(e) == e \in Frames

\* No listener run is suspended and no pump awaits a read.
Quiescent ==
  /\ \A h \in 1..Len(hs) : hs[h].pc = "done"
  /\ pumps = <<>>

OpenSockets == {s \in 1..Len(socks) : socks[s].st = "open"}

\* The sockets a listener run created, and those it created before socket s.
SocketsOf(h) == {s \in 1..Len(socks) : socks[s].owner = h}

EarlierOf(h, s) == {r \in SocketsOf(h) : r < s}

\* ------------------------------------------------------------------------
\* C1: teardown is idempotent.  Each of cleanup's four effects (writer
\* release, reader release, outbound close, inbound close) happens at most
\* once in a session; once isClosed is set it stays set and no step adds
\* another of these effects; and an invocation that is nothing but a call of
\* cleanup (the error listener) changes no state at all when the session is
\* closed already.
C1_TeardownIdempotent ==
  /\ [](\A e \in CleanupEvents : Count(log, e) <= 1)
  /\ [][isClosed =>
          /\ isClosed'
          /\ SelectSeq(log', IsCleanupEvent) = SelectSeq(log, IsCleanupEvent)]_vars
  /\ [][(isClosed /\ WsError) => UNCHANGED vars]_vars

\* A relaying session torn down by a CLOSE frame, whose close listener ran
\* afterwards: cleanup has run at least twice.
C1_Witness ==
  /\ \E h \in 1..Len(hs) : hs[h].res = "closed"
  /\ closeEv = "fired"
  /\ Count(log, "closeInbound") = 1
  /\ Count(log, "releaseWriter") = 1
  /\ Count(log, "closeSocket") = 1

\* ------------------------------------------------------------------------
\* C2: once the session is closed and nothing is pending any more, every
\* outbound socket the session opened is closed and the inbound channel is
\* not open.
C2_ClosedLeavesNothingOpen ==
  (isClosed /\ Quiescent) =>
    (OpenSockets = {} /\ readyState # WS_READY_STATE_OPEN)

\* ------------------------------------------------------------------------
\* C3: the session never has more than one outbound socket that is opened
\* and not yet closed.
C3_AtMostOneOpenSocket == Cardinality(OpenSockets) <= 1

\* ------------------------------------------------------------------------
\* C4: at most one pumpRemoteToWebSocket is inside its read loop, and while
\* one is, isReading is set.
C4_SinglePump ==
  /\ Len(pumps) <= 1
  /\ Len(pumps) = 1 => isReading

\* A second successful CONNECT asked for a pump while the first pump was
\* still reading, and was skipped.
C4_Witness ==
  /\ pumpSkipped
  /\ Len(pumps) = 1
  /\ ~isClosed
  /\ Cardinality({h \in 1..Len(hs) : hs[h].res = "connected"}) = 2

\* ------------------------------------------------------------------------
\* C5: one connectToRemote tries the direct target first and then the
\* fallbacks in list order, makes attempt k+1 only after attempt k failed,
\* makes no attempt after one that succeeded, and the socket it hands to the
\* session when an attempt's connection opens is that attempt's socket, dialled
\* at that attempt's host (the fallback, or the target for the direct one).
ExpectedIp(k) == IF k = 0 THEN 0 ELSE CF_FALLBACK_IPS[k]

C5_AttemptOrder ==
  /\ [](\A h \in 1..Len(hs) : \A s \in SocketsOf(h) :
          /\ Cardinality(EarlierOf(h, s)) <= Len(CF_FALLBACK_IPS)
          /\ socks[s].ip = ExpectedIp(Cardinality(EarlierOf(h, s)))
          /\ socks[s].hostname = socks[s].ip
          /\ \A r \in EarlierOf(h, s) : socks[r].outcome = "failed"
          /\ hs[h].res = "connected" =>
               /\ hs[h].sock \in SocketsOf(h)
               /\ s <= hs[h].sock
               /\ socks[hs[h].sock].outcome = "ok")
  /\ [][\A h \in 1..Len(hs) :
          SocketOpened(h) =>
            /\ remoteSocket' = hs[h].sock
            /\ remoteWriter' = hs[h].sock
            /\ remoteReader' = hs[h].sock
            /\ socks'[remoteSocket'].hostname = ExpectedIp(hs[h].i)]_vars

\* Direct and the first fallback failed, the second fallback connected.
C5_Witness ==
  \E h \in 1..Len(hs) :
    /\ hs[h].res = "connected"
    /\ socks[hs[h].sock].ip = 2
    /\ Cardinality(SocketsOf(h)) = 3

\* ------------------------------------------------------------------------
\* C6: connectToRemote ends in ConnectFailed exactly when every attempt of
\* the sequence was made and failed.  A failed attempt that is not the last
\* goes on to the next attempt whatever the error, and the error thrown is
\* the last attempt's.  (With an empty fallback list the sequence is the
\* direct attempt alone.)
AttemptFails(h, err) == SocketFailed(h, err) \/ FirstWriteFail(h, err)

BecomesConnectFailed(h) ==
  hs[h].res # "connectFailed" /\ hs'[h].res = "connectFailed"

C7_ErrorThenClose ==
  /\ [](\A h \in 1..Len(hs) :
          hs[h].res = "connectFailed" =>
            isClosed /\ readyState # WS_READY_STATE_OPEN)
  /\ [][\A h \in 1..Len(hs) :
          (BecomesConnectFailed(h) /\ readyState = WS_READY_STATE_OPEN) =>
            /\ Len(log') >= Len(log) + 2
            /\ log'[Len(log) + 1] = "ERROR_CONNECT"
            /\ log'[Len(log')] = "closeInbound"]_vars

\* Every attempt of a two-fallback list failed and the ERROR frame went out
\* before the inbound close.
C7_Witness ==
  \E h \in 1..Len(hs) : \E j, k \in 1..Len(log) :
    /\ hs[h].res = "connectFailed"
    /\ Cardinality(SocketsOf(h)) = 3
    /\ j < k
    /\ log[j] = "ERROR_CONNECT"
    /\ log[k] = "closeInbound"

\* ------------------------------------------------------------------------
\* C8, as the claim states it: the step in which connectToRemote fails sends
\* no frame to the inbound channel.
C8_FailureEmitsNothing ==
  [][\A h \in 1..Len(hs) :
       BecomesConnectFailed(h) =>
         SelectSeq(log', IsFrame) = SelectSeq(log, IsFrame)]_vars

\* C8, amended: the step in which connectToRemote fails sends exactly one
\* frame, ERROR, when the inbound channel is open and none when it is not; it
\* sends no CONNECTED, CLOSE or binary frame; it leaves the session closed and
\* the inbound channel not open; and no frame follows that ERROR frame.
C8_FailureEmitsOnlyError ==
  /\ [](\A k \in 1..Len(log) :
          log[k] = "ERROR_CONNECT" =>
            \A j \in (k + 1)..Len(log) : ~IsFrame(log[j]))
  /\ [][\A h \in 1..Len(hs) :
          BecomesConnectFailed(h) =>
            /\ SelectSeq(log', IsFrame) =
                 IF readyState = WS_READY_STATE_OPEN
                 THEN Append(SelectSeq(log, IsFrame), "ERROR_CONNECT")
                 ELSE SelectSeq(log, IsFrame)
            /\ isClosed'
            /\ readyState' # WS_READY_STATE_OPEN]_vars

\* A failed connect whose ERROR frame is the only frame the session ever sent.
C8_Witness ==
  \E h \in 1..Len(hs) :
    /\ hs[h].res = "connectFailed"
    /\ SelectSeq(log, IsFrame) = <<"ERROR_CONNECT">>
    /\ readyState # WS_READY_STATE_OPEN

\* ------------------------------------------------------------------------
\* C9: when a read of the pump reports end-of-stream in a session that is
\* not closed and whose inbound channel is open, CLOSE is sent to the
\* inbound channel before cleanup releases anything, cleanup's releases and
\* the inbound close follow in the same step, that CLOSE is the only CLOSE
\* frame of the session and no frame is sent after it.
C9_CloseOnEndOfStream ==
  /\ [](/\ Count(log, "CLOSE") <= 1
        /\ \A k \in 1..Len(log) :
             log[k] = "CLOSE" =>
               /\ \A j \in 1..(k - 1) : ~IsCleanupEvent(log[j])
               /\ \A j \in (k + 1)..Len(log) : IsCleanupEvent(log[j])
               /\ log[Len(log)] = "closeInbound")
  /\ [][\A p \in 1..Len(pumps) :
          (ReadDone(p) /\ ~isClosed /\ readyState = WS_READY_STATE_OPEN) =>
            /\ Count(log', "CLOSE") = 1
            /\ log'[Len(log) + 1] = "CLOSE"
            /\ isClosed'
            /\ readyState' # WS_READY_STATE_OPEN]_vars

\* A relaying session that forwarded a chunk and then saw end-of-stream.
C9_Witness ==
  /\ pumpEnd = "eos"
  /\ Count(log, "CLOSE") = 1
  /\ Count(log, "BIN") = 1
  /\ Count(log, "releaseReader") = 1
  /\ log[Len(log)] = "closeInbound"

\* ------------------------------------------------------------------------
\* C10: on every outbound socket the payloads of DATA and binary frames are
\* queued in the order the frames were delivered.
IsDataRun(h) == hs[h].kind \in {"DATA", "BIN"}

C10_WritesInDeliveryOrder ==
  \A s \in 1..Len(socks) : \A j, k \in 1..Len(socks[s].written) :
    (j < k /\ IsDataRun(socks[s].written[j]) /\ IsDataRun(socks[s].written[k]))
      => socks[s].written[j] < socks[s].written[k]

\* Two payloads on one socket, the later frame delivered while the write of
\* the earlier one is still pending.
C10_Witness ==
  \E s \in 1..Len(socks) : \E h1, h2 \in 1..Len(hs) :
    /\ h1 < h2
    /\ IsDataRun(h1) /\ IsDataRun(h2)
    /\ hs[h1].pc = "write" /\ hs[h2].pc = "write"
    /\ hs[h1].sock = s /\ hs[h2].sock = s
    /\ \E j, k \in 1..Len(socks[s].written) :
         j < k /\ socks[s].written[j] = h1 /\ socks[s].written[k] = h2

\* ------------------------------------------------------------------------
\* C11: a CONNECT: frame without '|' is answered as a malformed frame (an
\* ERROR frame if the inbound channel is open) and dials nothing: the step
\* creates no socket and leaves remoteSocket, remoteWriter, remoteReader and
\* isClosed as they were, and no socket ever belongs to such a frame.
C11_NoDelimiterNoConnect ==
  /\ [](\A s \in 1..Len(socks) : hs[socks[s].owner].kind # "CONNECT_NOSEP")
  /\ [][Message("CONNECT_NOSEP", FALSE) =>
          /\ socks' = socks
          /\ UNCHANGED <<remoteSocket, remoteWriter, remoteReader, isClosed>>
          /\ hs'[Len(hs')].res = "malformed"
          /\ log' = IF readyState = WS_READY_STATE_OPEN
                    THEN Append(log, "ERROR_FORMAT")
                    ELSE log]_vars

\* A relaying session received a CONNECT: frame without '|' and went on
\* relaying over the socket it had.
C11_Witness ==
  /\ \E h \in 1..Len(hs) : hs[h].kind = "CONNECT_NOSEP" /\ hs[h].res = "malformed"
  /\ Count(log, "ERROR_FORMAT") = 1
  /\ ~isClosed
  /\ remoteSocket = 1
  /\ Len(socks) = 1
  /\ Len(pumps) = 1

\* ------------------------------------------------------------------------
\* C12: whatever the session is doing, the step of an inbound close event,
\* of an inbound error event or of a CLOSE text frame leaves it closed; a
\* closed session stays closed, and its inbound channel is not open.
C12_ClosedIsTerminal ==
  /\ [](isClosed => readyState # WS_READY_STATE_OPEN)
  /\ [][(WsClose \/ WsError \/ Message("CLOSE", FALSE)) => isClosed']_vars
  /\ [][isClosed => isClosed']_vars

\* A relaying session closed by the inbound error event: no CLOSE frame came
\* in, no close event was dispatched, no connect or write failed and the pump
\* still awaits its read.
C12_Witness ==
  /\ isClosed
  /\ closeEv = "none"
  /\ pumpEnd = "none"
  /\ Len(pumps) = 1
  /\ Count(log, "closeSocket") = 1
  /\ \A h \in 1..Len(hs) : hs[h].res = "connected"

\* ------------------------------------------------------------------------
\* C13: at most one connectToRemote is suspended at an await at any time,
\* and a CONNECT frame that arrives while the session relays never leaves
\* the session with two open outbound sockets.
ConnectsInFlight == {h \in 1..Len(hs) : hs[h].pc \in {"opened", "firstWrite"}}

C13_OneConnectInFlight ==
  /\ Cardinality(ConnectsInFlight) <= 1
  /\ (remoteSocket # 0 /\ ConnectsInFlight = {}) => OpenSockets = {remoteSocket}

\* ------------------------------------------------------------------------
\* C14: the step in which the write of a DATA or binary payload fails
\* leaves the session closed and dials nothing; no read failure or
\* end-of-stream dials either; a socket is only ever created for a CONNECT
\* frame, by its delivery or by the failure of that frame's previous attempt
\* before it reported CONNECTED.
C14_WriteFailureCloses ==
  /\ [][\A h \in 1..Len(hs) :
          WriteFail(h) =>
            /\ isClosed'
            /\ Len(socks') = Len(socks)
            /\ hs'[h].pc = "done"
            /\ hs'[h].res = "writeFailed"]_vars
  /\ [][\A p \in 1..Len(pumps) :
          (ReadError(p) \/ ReadDone(p)) => Len(socks') = Len(socks)]_vars
  /\ [][Len(socks') > Len(socks) =>
          \E h \in 1..Len(hs') :
            /\ hs'[h].kind = "CONNECT"
            /\ hs'[h].pc = "opened"
            /\ hs'[h].sock = Len(socks')
            /\ h <= Len(hs) => hs[h].pc \in {"opened", "firstWrite"}]_vars

\* A relaying session whose DATA write failed: closed, its one socket
\* closed, nothing dialled since.
C14_Witness ==
  /\ \E h \in 1..Len(hs) : IsDataRun(h) /\ hs[h].res = "writeFailed"
  /\ \A h \in 1..Len(hs) : hs[h].res \in {"connected", "writeFailed"}
  /\ isClosed
  /\ closeEv = "none"
  /\ Len(socks) = 1
  /\ socks[1].st = "closed"
  /\ Count(log, "closeSocket") = 1

\* ------------------------------------------------------------------------
\* C15: in either shape parseAddress returns the host text with a port in
\* 1..65535 exactly when the address has its separator colon (the last
\* colon, or in the bracketed shape the colon that follows the closing
\* bracket) and the text after it is a non-empty string of digits whose
\* value is in range; on every other input it fails.
IsBracketed(a) == Len(a) > 0 /\ a[1] = "["

\* Position (from 1) of the separator colon, 0 when there is none.
SeparatorAt(a) ==
  IF IsBracketed(a)
  THEN IF indexOf(a, "]") # -1 /\ indexOf(a, "]") + 2 <= Len(a)
          /\ a[indexOf(a, "]") + 2] = ":"
       THEN indexOf(a, "]") + 2
       ELSE 0
  ELSE lastIndexOf(a, ":") + 1

PortText(a) == SubSeq(a, SeparatorAt(a) + 1, Len(a))

HostText(a) ==
  IF IsBracketed(a) THEN SubSeq(a, 2, SeparatorAt(a) - 2)
  ELSE SubSeq(a, 1, SeparatorAt(a) - 1)

IsInteger(s) == s # <<>> /\ \A k \in 1..Len(s) : IsDigit(s[k])

WellFormed(a) ==
  /\ SeparatorAt(a) # 0
  /\ IsInteger(PortText(a))
  /\ DigitsValue(PortText(a)) \in 1..65535

C15_ParseAddressValidates ==
  parsed.st # "none" =>
    IF WellFormed(addr)
    THEN parsed = [st |-> "ok", host |-> HostText(addr),
                   port |-> [nan |-> FALSE, val |-> DigitsValue(PortText(addr))]]
    ELSE parsed.st = "throw"

\* ------------------------------------------------------------------------
\* C16: the direct attempt dials the target's host and port; a fallback
\* attempt dials the entry's host, at the entry's own port when the entry
\* carries one (and then the host is the entry without its port) and at the
\* target's port otherwise.
C16_FallbackPort ==
  \A s \in 1..Len(socks) :
    LET k == socks[s].ip
    IN IF k = 0
       THEN socks[s].hostname = 0 /\ socks[s].port = 0
       ELSE IF EntryCarriesPort(k)
            THEN socks[s].hostname # k /\ socks[s].port = k
            ELSE socks[s].hostname = k /\ socks[s].port = 0

\* ------------------------------------------------------------------------
\* The pump goes back to the head of its loop: it reads again, from the
\* reader the session holds now, unless the loop's test ends it.
LoopGoesOn(p) ==
  IF ~isClosed /\ remoteReader # 0 /\ remoteSocket # 0
  THEN pumps' = [pumps EXCEPT ![p] = remoteReader]
  ELSE Len(pumps') = Len(pumps) - 1

PumpStopsQuietly ==
  /\ Len(pumps') = Len(pumps) - 1
  /\ log' = log
  /\ isClosed' = isClosed

\* C17, as the claim states it: on a read that is not end-of-stream the pump
\* stops, without a frame and without teardown, if the inbound channel is
\* not open; otherwise it forwards a non-empty chunk as one binary frame and
\* skips an empty one.
C17_PumpStopsWhenInboundClosed ==
  [][\A p \in 1..Len(pumps) :
       (ReadChunk(p) \/ ReadEmpty(p)) =>
         IF readyState # WS_READY_STATE_OPEN
         THEN PumpStopsQuietly
         ELSE IF ReadChunk(p)
              THEN log' = Append(log, "BIN") /\ isClosed' = isClosed
              ELSE log' = log /\ isClosed' = isClosed /\ LoopGoesOn(p)]_vars

\* C17, amended: an empty chunk is skipped whatever the state of the
\* inbound channel (nothing sent, the loop goes on); a non-empty chunk is
\* forwarded as one binary frame if the inbound channel is open, and stops
\* the pump, without a frame and without teardown, if it is not.
C17_PumpReadHandling ==
  [][\A p \in 1..Len(pumps) :
       /\ ReadEmpty(p) => (log' = log /\ isClosed' = isClosed /\ LoopGoesOn(p))
       /\ ReadChunk(p) =>
            IF readyState = WS_READY_STATE_OPEN
            THEN /\ log' = Append(log, "BIN")
                 /\ isClosed' = isClosed
                 /\ LoopGoesOn(p)
            ELSE /\ PumpStopsQuietly
                 /\ pumpEnd' = "stop"
                 /\ ~isReading']_vars

\* The pump forwarded a chunk, the peer closed the inbound channel, and the
\* next chunk stopped the pump: the session is not closed and still holds
\* its socket and reader.
C17_Witness ==
  /\ pumpEnd = "stop"
  /\ pumps = <<>>
  /\ ~isClosed
  /\ readyState # WS_READY_STATE_OPEN
  /\ Count(log, "BIN") = 1
  /\ Len(socks) = 1
  /\ remoteReader = 1
  /\ remoteSocket = 1

\* ------------------------------------------------------------------------
\* C18: the step of a rejected read ends that pump (isReading is cleared,
\* no read is pending for it) and leaves the session closed with the
\* inbound channel not open; in a closed session no pump issues a read any
\* more.
C18_ReadErrorTearsDown ==
  /\ [][\A p \in 1..Len(pumps) :
          ReadError(p) =>
            /\ Len(pumps') = Len(pumps) - 1
            /\ ~isReading'
            /\ isClosed'
            /\ readyState' # WS_READY_STATE_OPEN]_vars
  /\ [][isClosed => Len(pumps') <= Len(pumps)]_vars
  /\ [][\A p \in 1..Len(pumps) :
          (ReadError(p) /\ ~isClosed /\ remoteSocket # 0) =>
            /\ socks'[remoteSocket].st = "closed"
            /\ remoteSocket' = 0
            /\ remoteReader' = 0
            /\ remoteWriter' = 0]_vars

\* A relaying session that forwarded a chunk and then had a read rejected.
C18_Witness ==
  /\ pumpEnd = "error"
  /\ pumps = <<>>
  /\ isClosed
  /\ Count(log, "BIN") = 1
  /\ Count(log, "CLOSE") = 1
  /\ Count(log, "closeSocket") = 1
  /\ closeEv = "none"

\* ------------------------------------------------------------------------
\* C19: a DATA or binary frame delivered while the session holds no writer
\* changes nothing of the session (handles, flags, sockets, pumps, frames
\* sent): the listener returns at once; and its payload is never written to
\* any socket later.
C19_DataWithoutWriterDropped ==
  /\ [](\A s \in 1..Len(socks) : \A k \in 1..Len(socks[s].written) :
          hs[socks[s].written[k]].res # "nowriter")
  /\ [][\A kind \in {"DATA", "BIN"} :
          (Message(kind, FALSE) /\ remoteWriter = 0) =>
            /\ UNCHANGED <<readyState, remoteSocket, remoteWriter, remoteReader,
                           isClosed, isReading, socks, pumps, log>>
            /\ hs' = Append(hs, [NewRun(kind, FALSE) EXCEPT !.res = "nowriter"])]_vars

\* A payload arrived while the connect was pending and was dropped; the
\* next one, after the connect, was written: the socket's queue holds that
\* one alone.
C19_Witness ==
  \E h1, h2 \in 1..Len(hs) :
    /\ h1 < h2
    /\ IsDataRun(h1) /\ hs[h1].res = "nowriter"
    /\ IsDataRun(h2) /\ hs[h2].res = "written"
    /\ Len(socks) = 1
    /\ socks[1].written = <<h2>>
    /\ ~isClosed

\* ------------------------------------------------------------------------
\* C20: stringToBytes returns one byte per code unit, each the code unit
\* modulo 256: the output is as long as the string and a code unit in
\* 0..255 maps to itself.
C20_BytePerCodeUnit ==
  bytes.st = "ok" =>
    /\ Len(bytes.val) = Len(str)
    /\ \A i \in 1..Len(str) :
         /\ bytes.val[i] = str[i] % 256
         /\ str[i] \in 0..255 => bytes.val[i] = str[i]

\* A string with a code unit above 255 between two below: U+4E2D becomes
\* its low byte.
C20_Witness ==
  /\ bytes.st = "ok"
  /\ str = <<65, 20013, 255>>
  /\ bytes.val = <<65, 45, 255>>

\* ------------------------------------------------------------------------
\* C21: in a closed session no step writes a payload to any outbound
\* socket (old or new), no pump issues a read, and no frame is sent to the
\* inbound channel.
C21_NothingAfterClosed ==
  [][isClosed =>
       /\ \A s \in 1..Len(socks) : socks'[s].written = socks[s].written
       /\ \A s \in (Len(socks) + 1)..Len(socks') : socks'[s].written = <<>>
       /\ Len(pumps') <= Len(pumps)
       /\ SelectSeq(log', IsFrame) = SelectSeq(log, IsFrame)]_vars

\* C22: on every outbound socket made for a CONNECT with a non-empty first
\* payload, that payload is the first chunk written: while the run that made
\* the socket is alive the socket's queue is empty or begins with the run's
\* payload, the payload stands nowhere but first, and the head of a queue
\* never changes, whatever DATA or binary frames arrive while the first write
\* is pending.
C22_FirstPayloadFirst ==
  /\ [](\A s \in 1..Len(socks) :
          LET h == socks[s].owner
          IN (hs[h].first /\ hs[h].sock = s) =>
               \/ socks[s].written = <<>>
               \/ socks[s].written[1] = h)
  /\ [](\A s \in 1..Len(socks) : \A k \in 1..Len(socks[s].written) :
          socks[s].written[k] = socks[s].owner => k = 1)
  /\ [][\A s \in 1..Len(socks) :
          socks[s].written # <<>> =>
            /\ socks'[s].written # <<>>
            /\ socks'[s].written[1] = socks[s].written[1]]_vars

\* A DATA or binary payload is queued behind the first payload while the
\* first-payload write is still pending.
C22_Witness ==
  \E s \in 1..Len(socks) :
    LET h == socks[s].owner
    IN /\ hs[h].first /\ hs[h].pc = "firstWrite" /\ hs[h].sock = s
       /\ Len(socks[s].written) >= 2
       /\ socks[s].written[1] = h
       /\ hs[socks[s].written[2]].kind \in {"DATA", "BIN"}

\* The CONNECTED frames among the sent frames l: line 677.
ConnectedSent(l) == Count(l, "CONNECTED")

\* C23: CONNECTED is sent only by a connect whose socket has opened and whose
\* first payload, if any, is in the socket's write queue; at most one
\* CONNECTED is sent per successful connect; the pump reads from a socket, and
\* forwards a chunk read from it, only after the CONNECTED of that socket's
\* connect; and a pump starts only in the step of a successful connect, after
\* its CONNECTED when the inbound channel is open.
C23_ConnectedOrdering ==
  /\ [][ConnectedSent(log') > ConnectedSent(log) =>
          \E h \in 1..Len(hs) :
            /\ hs[h].pc \in {"opened", "firstWrite"}
            /\ hs'[h].pc = "done" /\ hs'[h].res = "connected"
            /\ socks'[hs[h].sock].st \in {"open", "closed"}
            /\ hs[h].first =>
                 \E k \in 1..Len(socks'[hs[h].sock].written) :
                   socks'[hs[h].sock].written[k] = h]_vars
  /\ [](ConnectedSent(log) <=
          Cardinality({h \in 1..Len(hs) : hs[h].res = "connected"}))
  /\ [][ConnectedSent(log') <= ConnectedSent(log) + 1]_vars
  /\ [](\A p \in 1..Len(pumps) : socks[pumps[p]].outcome = "ok")
  /\ [][\A p \in 1..Len(pumps) :
          (ReadChunk(p) /\ Count(log', "BIN") > Count(log, "BIN")) =>
            socks[pumps[p]].outcome = "ok"]_vars
  /\ [][Len(pumps') > Len(pumps) =>
          \E h \in 1..Len(hs) :
            /\ hs[h].pc # "done" /\ hs'[h].res = "connected"
            /\ readyState = WS_READY_STATE_OPEN =>
                 ConnectedSent(log') > ConnectedSent(log)]_vars

====
